---- MODULE Spec2Model ----
(***************************************************************************)
(* Model of the codespace agent: the path sandbox and the bearer-token     *)
(* gate (codespace-agent.js), the ProjectManager file/command server       *)
(* (server + project_manager), and the terminal session manager with its   *)
(* shutdown handling (codespace-agent.js).                                 *)
(*                                                                         *)
(* Strings are sequences of one-character strings, so that startsWith,     *)
(* equality and path resolution are computed character by character.       *)
(***************************************************************************)
EXTENDS Integers, Sequences, FiniteSets, TLC

VARIABLES
  pathArg,        \* SpecPath: the candidate handed to safePath
  pathOut,        \* SpecPath: what safePath produced for it ("pending" before)
  authArg,        \* SpecAuth: the Authorization header presented (None = absent)
  authOut,        \* SpecAuth: what assertAuth / the upgrade check answered
  httpReq,        \* SpecHttp: the request being answered
  httpRes,        \* SpecHttp: status and effects of the handler that answered it
  allowedExt,     \* SpecHttp: ALLOWED_EXTENSIONS as read at startup
  sessions,       \* Spec: the terminal sessions created so far, in order
  activeSessions, \* Spec: the Map sessionId -> shell, in insertion order
  lastUpgrade,    \* Spec: the last upgrade request and its outcome
  event,          \* Spec: the handler that ran last, and for what
  effects,        \* Spec: the calls that handler made, in order
  shutdown,       \* Spec: number of SIGTERM handlers that have run
  killedAtTerm,   \* Spec: shells the SIGTERM handlers called kill() on
  exitCode,       \* Spec: -1 while the service runs, else process.exit's code
  sessionsLeft,   \* Spec: upgrades the environment may still have accepted
  ioLeft,         \* Spec: frames and outputs the environment may still deliver
  invocation,     \* SpecCmd: the command execution of one POST /api/shell
  ignoreFilter,   \* SpecList: ProjectManager's ignoreFilter (null until loaded)
  listing         \* SpecList: the listing request being answered, and its answer

vars == << pathArg, pathOut, authArg, authOut, httpReq, httpRes, allowedExt,
           sessions, activeSessions, lastUpgrade, event, effects, shutdown,
           killedAtTerm, exitCode, sessionsLeft, ioLeft,
           invocation, ignoreFilter, listing >>

pathVars == << pathArg, pathOut >>
authVars == << authArg, authOut >>
httpVars == << httpReq, httpRes, allowedExt >>
termVars == << sessions, activeSessions, lastUpgrade, event, effects,
               shutdown, killedAtTerm, exitCode, sessionsLeft, ioLeft >>
cmdVars == << invocation >>
listVars == << ignoreFilter, listing >>

\* a missing (undefined) string: no character string equals it
None == <<"undefined">>

(***************************************************************************)
(* Bounds                                                                  *)
(***************************************************************************)
MaxPathLen == 5
MaxHttpPathLen == 2
MaxBatch == 2
\* Spec: sessions ever created, frames and outputs delivered, SIGTERMs
MaxSessions == 2
MaxIO == 1
MaxSigterm == 1
\* SpecIO: the same for the input/output runs
MaxIoSessions == 1
MaxIoFrames == 3

(***************************************************************************)
(* Strings                                                                 *)
(***************************************************************************)
\* String.prototype.startsWith
StartsWith(s, prefix) ==
  /\ Len(prefix) <= Len(s)
  /\ SubSeq(s, 1, Len(prefix)) = prefix

\* all strings over alphabet of length at most n
StringsUpTo(alphabet, n) == UNION { [1..k -> alphabet] : k \in 0..n }

(***************************************************************************)
(* Paths (POSIX flavour of node's path module)                             *)
(***************************************************************************)
Slash == <<"/">>

\* the working directory of the agent, and the characters candidates use
WORKDIR == <<"/", "w">>
PathAlphabet == {"/", ".", "w", "a"}

RECURSIVE SplitFrom(_, _, _)
\* segments of s between "/" characters, scanning from position i with the
\* segment cur open
SplitFrom(s, i, cur) ==
  IF i > Len(s) THEN <<cur>>
  ELSE IF s[i] = "/" THEN <<cur>> \o SplitFrom(s, i + 1, <<>>)
  ELSE SplitFrom(s, i + 1, Append(cur, s[i]))

Split(s) == SplitFrom(s, 1, <<>>)

RECURSIVE NormalizeSegs(_, _)
\* normalizeString(path, allowAboveRoot = false): drop "" and ".", let ".."
\* remove the segment before it, never climbing above the root
NormalizeSegs(segs, acc) ==
  IF segs = <<>> THEN acc
  ELSE LET seg == Head(segs) IN
    IF seg = <<>> \/ seg = <<".">> THEN NormalizeSegs(Tail(segs), acc)
    ELSE IF seg = <<".", ".">>
      THEN NormalizeSegs(Tail(segs),
                         IF acc = <<>> THEN acc ELSE SubSeq(acc, 1, Len(acc) - 1))
    ELSE NormalizeSegs(Tail(segs), Append(acc, seg))

RECURSIVE JoinSegs(_)
JoinSegs(segs) ==
  IF segs = <<>> THEN <<>>
  ELSE Slash \o Head(segs) \o JoinSegs(Tail(segs))

IsAbsolute(p) == p # <<>> /\ Head(p) = "/"

\* path.resolve(from, to) for an absolute from: an absolute to replaces from,
\* a relative one is appended; the result is normalized, without a trailing
\* slash, and "/" for the root
PathResolve(from, to) ==
  LET joined == IF IsAbsolute(to) THEN to ELSE from \o Slash \o to
      segs   == NormalizeSegs(Split(joined), <<>>)
  IN IF segs = <<>> THEN Slash ELSE JoinSegs(segs)

\* the check of safePath: the resolved path starts with WORKDIR, as a string
ResolvedInWorkdir(resolved) == StartsWith(resolved, WORKDIR)

\* safePath(p): throw on a missing or empty p and on a resolved path that
\* fails the check, else return the resolved path
safePath(p) ==
  IF p = None \/ p = <<>>
    THEN [done |-> TRUE, ok |-> FALSE, error |-> "Path is required",
          path |-> None]
  ELSE LET resolved == PathResolve(WORKDIR, p) IN
    IF ~ResolvedInWorkdir(resolved)
      THEN [done |-> TRUE, ok |-> FALSE,
            error |-> "Invalid path: outside working directory", path |-> None]
    ELSE [done |-> TRUE, ok |-> TRUE, error |-> "", path |-> resolved]

\* a path names an entry inside directory dir: dir, a separator, and more
InsideDir(path, dir) ==
  /\ Len(path) > Len(dir) + 1
  /\ StartsWith(path, dir \o Slash)

\* the candidates: every string over PathAlphabet up to MaxPathLen, and a
\* missing argument
PathCandidates == StringsUpTo(PathAlphabet, MaxPathLen) \cup {None}

(***************************************************************************)
(* SpecPath: safePath applied to every candidate                           *)
(***************************************************************************)
Pending == [done |-> FALSE]
NoEvent == [handler |-> "none", s |-> 0, arg |-> <<>>]

IdleAuth == authArg = None /\ authOut = Pending
\* ALLOWED_EXTENSIONS when the environment variable is unset
NoAllowList == [isNull |-> TRUE, list |-> {}]

IdleHttp == httpReq = Pending /\ httpRes = Pending /\ allowedExt = NoAllowList
IdleTerm ==
  /\ sessions = <<>>
  /\ activeSessions = <<>>
  /\ lastUpgrade = Pending
  /\ event = NoEvent
  /\ effects = <<>>
  /\ shutdown = 0
  /\ killedAtTerm = {}
  /\ exitCode = -1
  /\ sessionsLeft = 0
  /\ ioLeft = 0

\* no command was posted; the constructor of ProjectManager has just run
NoInvocation == [phase |-> "idle"]
NullFilter == [isNull |-> TRUE, rules |-> <<>>]
IdleCmd == invocation = NoInvocation
IdleList == ignoreFilter = NullFilter /\ listing = Pending

InitPath ==
  /\ pathArg \in PathCandidates
  /\ pathOut = Pending
  /\ IdleAuth /\ IdleHttp /\ IdleTerm
  /\ IdleCmd /\ IdleList

CallSafePath ==
  /\ ~pathOut.done
  /\ pathOut' = safePath(pathArg)
  /\ UNCHANGED << pathArg, authVars, httpVars, termVars, cmdVars, listVars >>

NextPath == CallSafePath

SpecPath == InitPath /\ [][NextPath]_vars

\* C1: safePath(p) either throws an invalid-path error or returns an absolute
\* path that names an entry inside the WorkingRoot directory. The statement is
\* taken in the reading most favourable to the code: the root itself, which
\* safePath(".") returns and the root listing needs, counts as inside, so a
\* violation is a returned path that lies outside WorkingRoot.
C1_ResolveInsideOrThrows ==
  pathOut.done =>
    \/ ~pathOut.ok /\ pathOut.error \in {"Path is required",
                                         "Invalid path: outside working directory"}
    \/ /\ pathOut.ok
       /\ IsAbsolute(pathOut.path)
       /\ StartsWith(pathOut.path, WORKDIR)
       /\ pathOut.path = WORKDIR \/ InsideDir(pathOut.path, WORKDIR)

\* the sibling-directory case of C1: "../wa" was resolved and returned
C1_SiblingAccepted ==
  /\ pathArg = <<".", ".", "/", "w", "a">>
  /\ pathOut.done
  /\ pathOut.ok
  /\ pathOut.path = <<"/", "w", "a">>

(***************************************************************************)
(* AuthGate                                                                *)
(***************************************************************************)
\* process.env.AGENT_TOKEN || 'secrets'
AGENT_TOKEN == <<"s", "e", "c", "r", "e", "t", "s">>

\* the template literal `Bearer ${AGENT_TOKEN}`
BearerToken == <<"B", "e", "a", "r", "e", "r", " ">> \o AGENT_TOKEN

\* !auth: undefined and the empty string are falsy
Falsy(str) == str = None \/ str = <<>>

\* a prefix test in place of the comparison
AuthRejectedByPrefix(auth) == Falsy(auth) \/ ~StartsWith(auth, BearerToken)

\* the comparison of assertAuth: !auth || auth !== `Bearer ${AGENT_TOKEN}`
AuthRejected(auth) == Falsy(auth) \/ auth # BearerToken

\* assertAuth(req, res): answers 401 and returns false, or returns true
assertAuth(auth) ==
  IF AuthRejected(auth)
    THEN [ok |-> FALSE, status |-> 401]
    ELSE [ok |-> TRUE, status |-> 0]

\* the comparison of the upgrade handler: auth !== `Bearer ${AGENT_TOKEN}`
\* an upgrade check that only looks for the header's presence
UpgradeRejectedIfAbsent(auth) == auth = None

UpgradeRejected(auth) == auth # BearerToken

\* characters a presented header is varied with
AuthAlphabet == {"B", "b", " ", "s", "x"}

\* header values: absent, empty, the token without scheme, and every string
\* one edit (a character dropped, replaced or inserted) or one truncation away
\* from the expected header
HeaderCandidates ==
  LET E == BearerToken
      n == Len(E)
  IN {None, <<>>, E, AGENT_TOKEN, E \o E}
     \cup { SubSeq(E, 1, k) : k \in 0..n }
     \cup { SubSeq(E, k, n) : k \in 1..n }
     \cup { SubSeq(E, 1, k - 1) \o SubSeq(E, k + 1, n) : k \in 1..n }
     \cup { SubSeq(E, 1, k - 1) \o <<c>> \o SubSeq(E, k + 1, n) :
              k \in 1..n, c \in AuthAlphabet }
     \cup { SubSeq(E, 1, k) \o <<c>> \o SubSeq(E, k + 1, n) :
              k \in 0..n, c \in AuthAlphabet }

(***************************************************************************)
(* SpecAuth: both authorization checks applied to every header candidate   *)
(***************************************************************************)
InitAuth ==
  /\ authArg \in HeaderCandidates
  /\ authOut = Pending
  /\ pathArg = None /\ pathOut = Pending
  /\ IdleHttp /\ IdleTerm
  /\ IdleCmd /\ IdleList

CheckAuth ==
  /\ ~authOut.done
  /\ authOut' = [done |-> TRUE,
                 http |-> assertAuth(authArg),
                 upgrade |-> ~UpgradeRejected(authArg)]
  /\ UNCHANGED << authArg, pathVars, httpVars, termVars, cmdVars, listVars >>

NextAuth == CheckAuth

SpecAuth == InitAuth /\ [][NextAuth]_vars

\* C4: the authorization check (of HTTP requests and of upgrade requests)
\* answers true only for the header that is exactly "Bearer " followed by the
\* configured credential, and false (with status 401 on HTTP) for a missing
\* header and every other value.
C4_AuthExactMatch ==
  authOut.done =>
    LET exact == /\ authArg # None
                 /\ Len(authArg) = 7 + Len(AGENT_TOKEN)
                 /\ SubSeq(authArg, 1, 7) = <<"B", "e", "a", "r", "e", "r", " ">>
                 /\ SubSeq(authArg, 8, Len(authArg)) = AGENT_TOKEN
    IN /\ authOut.http.ok <=> exact
       /\ authOut.upgrade <=> exact
       /\ ~authOut.http.ok => authOut.http.status = 401

\* C4's cases: the exact header was accepted, and a header that only extends
\* it was checked
C4_AcceptedExact ==
  /\ authOut.done
  /\ authArg = BearerToken
  /\ authOut.http.ok /\ authOut.upgrade

(***************************************************************************)
(* More of node's path module, as the two servers use it                   *)
(***************************************************************************)
Max(S) == CHOOSE x \in S : \A y \in S : y <= x

RECURSIVE NormalizeRelSegs(_, _)
\* normalizeString(path, allowAboveRoot = true), for relative paths: ".."
\* that cannot remove a segment is kept
NormalizeRelSegs(segs, acc) ==
  IF segs = <<>> THEN acc
  ELSE LET seg == Head(segs) IN
    IF seg = <<>> \/ seg = <<".">> THEN NormalizeRelSegs(Tail(segs), acc)
    ELSE IF seg = <<".", ".">>
      THEN NormalizeRelSegs(Tail(segs),
             IF acc = <<>> \/ acc[Len(acc)] = <<".", ".">>
               THEN Append(acc, seg)
               ELSE SubSeq(acc, 1, Len(acc) - 1))
    ELSE NormalizeRelSegs(Tail(segs), Append(acc, seg))

RECURSIVE JoinRelSegs(_)
JoinRelSegs(segs) ==
  IF segs = <<>> THEN <<>>
  ELSE IF Len(segs) = 1 THEN Head(segs)
  ELSE Head(segs) \o Slash \o JoinRelSegs(Tail(segs))

\* path.normalize(p)
PathNormalize(p) ==
  IF p = <<>> THEN <<".">>
  ELSE LET abs      == IsAbsolute(p)
           trailing == p[Len(p)] = "/"
           segs     == IF abs THEN NormalizeSegs(Split(p), <<>>)
                              ELSE NormalizeRelSegs(Split(p), <<>>)
           body     == JoinRelSegs(segs)
           inner    == IF body = <<>>
                         THEN (IF abs THEN <<>> ELSE <<".">>)
                         ELSE body
           tailed   == IF trailing /\ ~(body = <<>> /\ abs)
                         THEN inner \o Slash ELSE inner
       IN IF abs THEN Slash \o tailed ELSE tailed

\* path.join(a, b): empty arguments are skipped, the rest joined and normalized
PathJoin(a, b) ==
  IF a = <<>> /\ b = <<>> THEN <<".">>
  ELSE IF a = <<>> THEN PathNormalize(b)
  ELSE IF b = <<>> THEN PathNormalize(a)
  ELSE PathNormalize(a \o Slash \o b)

\* path.dirname(p)
PathDirname(p) ==
  IF p = <<>> THEN <<".">>
  ELSE LET n        == Len(p)
           hasRoot  == p[1] = "/"
           lastChar == Max({0} \cup { j \in 2..n : p[j] # "/" })
           end      == Max({0} \cup { j \in 2..lastChar : p[j] = "/" })
       IN IF end = 0 THEN (IF hasRoot THEN Slash ELSE <<".">>)
          ELSE IF hasRoot /\ end = 2 THEN <<"/", "/">>
          ELSE SubSeq(p, 1, end - 1)

\* path.basename of a path without trailing slash: its last segment
PathBasename(p) == LET segs == Split(p) IN segs[Len(segs)]

\* String.prototype.toLowerCase on the characters of the model
LowerChar(c) == IF c = "A" THEN "a" ELSE IF c = "W" THEN "w" ELSE c
ToLowerCase(str) == [i \in 1..Len(str) |-> LowerChar(str[i])]

\* path.extname(p): from the last "." of the last segment, "" when there is
\* none, when it is the segment's first character, or for ".."
PathExtname(p) ==
  LET base == PathBasename(p)
      dot  == Max({0} \cup { j \in 1..Len(base) : base[j] = "." })
  IN IF dot <= 1 \/ base = <<".", ".">> THEN <<>>
     ELSE SubSeq(base, dot, Len(base))

\* isAllowedExtension(filePath)
isAllowedExtension(filePath) ==
  IF allowedExt.isNull THEN TRUE
  ELSE LET ext == ToLowerCase(PathExtname(filePath)) IN
    \/ ext \in allowedExt.list
    \/ SubSeq(ext, 2, Len(ext)) \in allowedExt.list

(***************************************************************************)
(* HTTP handlers. A handler's answer is its status and the set of calls it *)
(* handed to the filesystem or to child_process, each with the absolute    *)
(* path the operating system acts on. What the filesystem holds at the     *)
(* target is the environment's choice (kind).                              *)
(***************************************************************************)
R(status, fx) == [done |-> TRUE, status |-> status, effects |-> fx]
Fx(op, path) == [op |-> op, path |-> path]

\* what the filesystem holds at the target of a request
\* ("dirsub": a directory holding a subdirectory, "dirfile": a directory
\* holding a file, "error": an entry the call fails on)
FsKinds == {"absent", "file", "bigfile", "dir", "dirsub", "dirfile", "error"}
Exists(kind) == kind # "absent"
IsDirectory(kind) == kind \in {"dir", "dirsub", "dirfile"}
HasEntry(kind) == kind \in {"dirsub", "dirfile"}
\* the name of the entry such a directory holds
SubName == <<"a">>

\* ---- codespace-agent.js ----
AgentHealth == R(200, {})

AgentReadFile(auth, p, kind) ==
  IF ~assertAuth(auth).ok THEN R(401, {})
  ELSE LET sp == safePath(p) IN
    IF ~sp.ok THEN R(400, {})
    ELSE IF ~Exists(kind) THEN R(404, {Fx("access", sp.path)})
    ELSE IF IsDirectory(kind)
      THEN R(400, {Fx("access", sp.path), Fx("stat", sp.path)})
    ELSE IF kind = "bigfile"
      THEN R(413, {Fx("access", sp.path), Fx("stat", sp.path)})
    ELSE R(IF kind = "error" THEN 400 ELSE 200,
           {Fx("access", sp.path), Fx("stat", sp.path), Fx("readFile", sp.path)})

AgentWriteFile(auth, p, content, createDirs, kind) ==
  IF ~assertAuth(auth).ok THEN R(401, {})
  ELSE IF Falsy(p) \/ content = None THEN R(400, {})
  ELSE LET sp == safePath(p) IN
    IF ~sp.ok THEN R(400, {})
    ELSE IF ~isAllowedExtension(sp.path) THEN R(403, {})
    ELSE LET dirs == IF createDirs THEN {Fx("mkdir", PathDirname(sp.path))} ELSE {}
         IN IF IsDirectory(kind) \/ kind = "error"
              THEN R(400, dirs \cup {Fx("writeFile", sp.path)})
              ELSE R(200, dirs \cup {Fx("writeFile", sp.path), Fx("stat", sp.path)})

AgentUpdateFile(auth, p, content, kind) ==
  IF ~assertAuth(auth).ok THEN R(401, {})
  ELSE IF Falsy(p) \/ content = None THEN R(400, {})
  ELSE LET sp == safePath(p) IN
    IF ~sp.ok THEN R(400, {})
    ELSE IF ~Exists(kind) THEN R(404, {Fx("access", sp.path)})
    ELSE IF IsDirectory(kind) \/ kind = "error"
      THEN R(400, {Fx("access", sp.path), Fx("writeFile", sp.path)})
    ELSE R(200, {Fx("access", sp.path), Fx("writeFile", sp.path),
                 Fx("stat", sp.path)})

AgentDeleteFile(auth, p, recursive, kind) ==
  IF ~assertAuth(auth).ok THEN R(401, {})
  ELSE LET sp == safePath(p) IN
    IF ~sp.ok THEN R(400, {})
    ELSE IF ~Exists(kind) THEN R(404, {Fx("access", sp.path)})
    ELSE LET seen == {Fx("access", sp.path), Fx("stat", sp.path)} IN
      IF IsDirectory(kind)
        THEN R(IF recursive THEN 200 ELSE 400, seen \cup {Fx("rm", sp.path)})
        ELSE R(IF kind = "error" THEN 400 ELSE 200,
               seen \cup {Fx("unlink", sp.path)})

AgentListDir(auth, p, detailed, kind) ==
  IF ~assertAuth(auth).ok THEN R(401, {})
  ELSE LET sp == safePath(IF Falsy(p) THEN <<".">> ELSE p) IN
    IF ~sp.ok THEN R(400, {})
    ELSE IF ~Exists(kind) THEN R(404, {Fx("access", sp.path)})
    ELSE LET seen == {Fx("access", sp.path), Fx("stat", sp.path)} IN
      IF ~IsDirectory(kind) THEN R(400, seen)
      ELSE R(200, seen \cup {Fx("readdir", sp.path)}
                  \cup (IF detailed /\ HasEntry(kind)
                          THEN {Fx("stat", PathJoin(sp.path, SubName))}
                          ELSE {}))

AgentMkdir(auth, p, kind) ==
  IF ~assertAuth(auth).ok THEN R(401, {})
  ELSE IF Falsy(p) THEN R(400, {})
  ELSE LET sp == safePath(p) IN
    IF ~sp.ok THEN R(400, {})
    ELSE R(IF kind \in {"file", "bigfile", "error"} THEN 400 ELSE 200,
           {Fx("mkdir", sp.path)})

AgentStat(auth, p, kind) ==
  IF ~assertAuth(auth).ok THEN R(401, {})
  ELSE LET sp == safePath(p) IN
    IF ~sp.ok THEN R(400, {})
    ELSE IF ~Exists(kind) THEN R(404, {Fx("access", sp.path)})
    ELSE R(200, {Fx("access", sp.path), Fx("stat", sp.path)})

\* the search reads the directory and descends into its subdirectories
AgentSearch(auth, query, p, kind) ==
  IF ~assertAuth(auth).ok THEN R(401, {})
  ELSE IF Falsy(query) THEN R(400, {})
  ELSE LET sp == safePath(IF p = None THEN <<".">> ELSE p) IN
    IF ~sp.ok THEN R(400, {})
    ELSE R(200, {Fx("readdir", sp.path)}
                \cup (IF kind = "dirsub"
                        THEN {Fx("readdir", PathJoin(sp.path, SubName))}
                        ELSE {}))

\* ---- the ProjectManager server (server + project_manager) ----
\* new ProjectManager('../'), and the directory the server process runs in:
\* the agent's own directory, one level below the working directory
basePath == <<".", ".", "/">>
PmCwd == WORKDIR \o Slash \o <<"a">>

\* the absolute path the operating system acts on for a path of the process
PmAbs(rel) == PathResolve(PmCwd, rel)

\* a null element of a request's array
NullItem == <<"null">>

PmHealth == R(200, {})

\* createFile(filePath, content)
PmCreateFile(filePath) ==
  LET fullPath == PathJoin(basePath, filePath) IN
    {Fx("mkdir", PmAbs(PathDirname(fullPath))), Fx("writeFile", PmAbs(fullPath))}

\* a batch answer: the answer and, when the batch succeeded, one record per
\* element of req.body.files
RB(status, fx, results) ==
  [done |-> TRUE, status |-> status, effects |-> fx, results |-> results]

\* POST /api/files/create. An element is given by its path member; for a
\* null element the destructuring throws, and so does file.path in the
\* catch block: the callback's promise rejects and with it Promise.all
PmCreate(isArray, files) ==
  IF ~isArray THEN R(400, {})
  ELSE LET fx == UNION { IF files[i] = NullItem \/ Falsy(files[i]) THEN {}
                         ELSE PmCreateFile(files[i]) : i \in 1..Len(files) }
       IN IF \E i \in 1..Len(files) : files[i] = NullItem
            THEN R(500, fx)
            ELSE RB(200, fx,
                    [i \in 1..Len(files) |->
                       [path |-> files[i], success |-> ~Falsy(files[i])]])

\* POST /api/files (read): readFile throws for an element that is no string
\* (path.join), and the callback's catch block answers for that element
PmRead(isArray, files) ==
  IF ~isArray THEN R(400, {})
  ELSE RB(200,
          UNION { IF files[i] = NullItem \/ files[i] = None THEN {}
                  ELSE {Fx("readFile", PmAbs(PathJoin(basePath, files[i])))} :
                  i \in 1..Len(files) },
          [i \in 1..Len(files) |->
             [path |-> files[i],
              success |-> files[i] # NullItem /\ files[i] # None]])

\* POST /api/files/update
PmUpdate(p, content, kind) ==
  IF p = None \/ content = None THEN R(500, {})
  ELSE R(IF IsDirectory(kind) \/ kind = "error" THEN 500 ELSE 200,
         {Fx("writeFile", PmAbs(PathJoin(basePath, p)))})

\* POST /api/files/move
PmMove(source, destination, kind) ==
  IF source = None \/ destination = None THEN R(500, {})
  ELSE LET oldFullPath == PathJoin(basePath, source)
           newFullPath == PathJoin(PathJoin(basePath, PathDirname(source)),
                                   destination)
       IN R(IF Exists(kind) /\ kind # "error" THEN 200 ELSE 500,
            {Fx("rename", PmAbs(oldFullPath)), Fx("rename", PmAbs(newFullPath))})

\* POST /api/files/copy
PmCopy(source, destination, kind) ==
  IF source = None \/ destination = None THEN R(500, {})
  ELSE LET src == PathJoin(basePath, source)
           dst == PathJoin(basePath, destination)
       IN IF ~Exists(kind) \/ kind = "error" THEN R(500, {Fx("stat", PmAbs(src))})
          ELSE IF IsDirectory(kind)
            THEN R(200, {Fx("stat", PmAbs(src)), Fx("mkdir", PmAbs(dst)),
                         Fx("readdir", PmAbs(src))}
                        \cup (IF kind = "dirsub"
                                THEN {Fx("mkdir", PmAbs(PathJoin(dst, SubName))),
                                      Fx("readdir", PmAbs(PathJoin(src, SubName)))}
                              ELSE IF kind = "dirfile"
                                THEN {Fx("copyFile", PmAbs(PathJoin(src, SubName))),
                                      Fx("copyFile", PmAbs(PathJoin(dst, SubName)))}
                              ELSE {}))
          ELSE R(200, {Fx("stat", PmAbs(src)), Fx("copyFile", PmAbs(src)),
                       Fx("copyFile", PmAbs(dst))})

\* POST /api/files/delete
PmDelete(p, kind) ==
  IF p = None THEN R(500, {})
  ELSE LET full == PmAbs(PathJoin(basePath, p)) IN
    IF ~Exists(kind) \/ kind = "error" THEN R(500, {Fx("stat", full)})
    ELSE IF IsDirectory(kind) THEN R(200, {Fx("stat", full), Fx("rm", full)})
    ELSE R(200, {Fx("stat", full), Fx("unlink", full)})

\* POST /api/ls
PmList(p, recursive, with_content, kind) ==
  LET dirPath  == IF Falsy(p) THEN <<>> ELSE p
      full     == PmAbs(PathJoin(basePath, dirPath))
      itemPath == PathJoin(dirPath, SubName)
      itemFull == PmAbs(PathJoin(basePath, itemPath))
  IN IF ~IsDirectory(kind) THEN R(500, {Fx("readdir", full)})
     ELSE R(200, {Fx("readdir", full)}
                 \cup (IF recursive /\ kind = "dirsub"
                         THEN {Fx("readdir", itemFull)} ELSE {})
                 \cup (IF with_content /\ kind = "dirfile"
                         THEN {Fx("readFile", itemFull)} ELSE {}))

\* POST /api/files/stats
PmStats(p, kind) ==
  IF p = None THEN R(500, {})
  ELSE R(IF kind = "error" THEN 500 ELSE 200,
         {Fx("stat", PmAbs(PathJoin(basePath, p)))})

\* POST /api/shell: runCommand / runCommandStream with { cwd }: the spread of
\* options replaces the default cwd even when the request names none, and the
\* child then runs in the server's own directory
PmShell(command, cwd, stream) ==
  IF Falsy(command) THEN R(400, {})
  ELSE R(200, {Fx(IF stream THEN "spawn" ELSE "exec",
                  IF cwd = None THEN PmCwd ELSE PmAbs(cwd))})

(***************************************************************************)
(* SpecHttp: any sequence of requests to the two servers                   *)
(***************************************************************************)
\* Authorization headers: absent, the configured one, a wrong token, the
\* token without its scheme
HttpHeaders ==
  {None, BearerToken, <<"B", "e", "a", "r", "e", "r", " ", "x">>, AGENT_TOKEN}

\* request paths: absent, every short string, and the sibling traversal
HttpPaths ==
  StringsUpTo(PathAlphabet, MaxHttpPathLen)
    \cup {None, <<".", ".", "/", "w", "a">>}

\* second paths (destinations, working directories)
SecondPaths == {None, <<"a">>, <<".", ".", "/", ".", ".", "/", "a">>, <<"/">>}

\* elements of a batch
BatchItems == {None, NullItem, <<"a">>, <<".", ".", "/", ".", ".", "/", "a">>}
Batches == UNION { [1..k -> BatchItems] : k \in 0..MaxBatch }

Contents == {None, <<"x">>}

\* ALLOWED_EXTENSIONS: unset, "w", ".a"
AllowLists ==
  {NoAllowList, [isNull |-> FALSE, list |-> {<<"w">>}],
   [isNull |-> FALSE, list |-> {<<".", "a">>}]}

Req(srv, ep, hdr, p1, p2, items, flags, k) ==
  [done |-> TRUE, server |-> srv, endpoint |-> ep, auth |-> hdr,
   path |-> p1, path2 |-> p2, files |-> items, flag |-> flags, kind |-> k]

InitHttp ==
  /\ httpReq = Pending /\ httpRes = Pending
  /\ allowedExt \in AllowLists
  /\ pathArg = None /\ pathOut = Pending
  /\ IdleAuth /\ IdleTerm
  /\ IdleCmd /\ IdleList

GetHealth ==
  /\ ~httpRes.done
  /\ \E auth \in HttpHeaders :
       /\ httpReq' = Req("agent", "GET /health", auth, None, None, <<>>, <<>>, "absent")
       /\ httpRes' = AgentHealth
  /\ UNCHANGED << allowedExt, pathVars, authVars, termVars, cmdVars, listVars >>

GetFile ==
  /\ ~httpRes.done
  /\ \E auth \in HttpHeaders, p \in HttpPaths, kind \in FsKinds :
       /\ httpReq' = Req("agent", "GET /api/files", auth, p, None, <<>>, <<>>, kind)
       /\ httpRes' = AgentReadFile(auth, p, kind)
  /\ UNCHANGED << allowedExt, pathVars, authVars, termVars, cmdVars, listVars >>

PostFile ==
  /\ ~httpRes.done
  /\ \E auth \in HttpHeaders, p \in HttpPaths, content \in Contents,
     createDirs \in BOOLEAN, kind \in FsKinds :
       /\ httpReq' = Req("agent", "POST /api/files", auth, p, content, <<>>, <<createDirs>>, kind)
       /\ httpRes' = AgentWriteFile(auth, p, content, createDirs, kind)
  /\ UNCHANGED << allowedExt, pathVars, authVars, termVars, cmdVars, listVars >>

PutFile ==
  /\ ~httpRes.done
  /\ \E auth \in HttpHeaders, p \in HttpPaths, content \in Contents,
     kind \in FsKinds :
       /\ httpReq' = Req("agent", "PUT /api/files", auth, p, content, <<>>, <<>>, kind)
       /\ httpRes' = AgentUpdateFile(auth, p, content, kind)
  /\ UNCHANGED << allowedExt, pathVars, authVars, termVars, cmdVars, listVars >>

DeleteFile ==
  /\ ~httpRes.done
  /\ \E auth \in HttpHeaders, p \in HttpPaths, recursive \in BOOLEAN,
     kind \in FsKinds :
       /\ httpReq' = Req("agent", "DELETE /api/files", auth, p, None, <<>>, <<recursive>>, kind)
       /\ httpRes' = AgentDeleteFile(auth, p, recursive, kind)
  /\ UNCHANGED << allowedExt, pathVars, authVars, termVars, cmdVars, listVars >>

GetLs ==
  /\ ~httpRes.done
  /\ \E auth \in HttpHeaders, p \in HttpPaths, detailed \in BOOLEAN,
     kind \in FsKinds :
       /\ httpReq' = Req("agent", "GET /api/ls", auth, p, None, <<>>, <<detailed>>, kind)
       /\ httpRes' = AgentListDir(auth, p, detailed, kind)
  /\ UNCHANGED << allowedExt, pathVars, authVars, termVars, cmdVars, listVars >>

PostMkdir ==
  /\ ~httpRes.done
  /\ \E auth \in HttpHeaders, p \in HttpPaths, kind \in FsKinds :
       /\ httpReq' = Req("agent", "POST /api/mkdir", auth, p, None, <<>>, <<>>, kind)
       /\ httpRes' = AgentMkdir(auth, p, kind)
  /\ UNCHANGED << allowedExt, pathVars, authVars, termVars, cmdVars, listVars >>

GetStat ==
  /\ ~httpRes.done
  /\ \E auth \in HttpHeaders, p \in HttpPaths, kind \in FsKinds :
       /\ httpReq' = Req("agent", "GET /api/stat", auth, p, None, <<>>, <<>>, kind)
       /\ httpRes' = AgentStat(auth, p, kind)
  /\ UNCHANGED << allowedExt, pathVars, authVars, termVars, cmdVars, listVars >>

GetSearch ==
  /\ ~httpRes.done
  /\ \E auth \in HttpHeaders, query \in Contents, p \in HttpPaths,
     kind \in FsKinds :
       /\ httpReq' = Req("agent", "GET /api/search", auth, p, query, <<>>, <<>>, kind)
       /\ httpRes' = AgentSearch(auth, query, p, kind)
  /\ UNCHANGED << allowedExt, pathVars, authVars, termVars, cmdVars, listVars >>

PmGetHealth ==
  /\ ~httpRes.done
  /\ \E auth \in HttpHeaders :
       /\ httpReq' = Req("pm", "GET /health", auth, None, None, <<>>, <<>>, "absent")
       /\ httpRes' = PmHealth
  /\ UNCHANGED << allowedExt, pathVars, authVars, termVars, cmdVars, listVars >>

PmPostCreate ==
  /\ ~httpRes.done
  /\ \E auth \in HttpHeaders, isArray \in BOOLEAN, files \in Batches :
       /\ httpReq' = Req("pm", "POST /api/files/create", auth, None, None, files, <<isArray>>, "absent")
       /\ httpRes' = PmCreate(isArray, files)
  /\ UNCHANGED << allowedExt, pathVars, authVars, termVars, cmdVars, listVars >>

PmPostRead ==
  /\ ~httpRes.done
  /\ \E auth \in HttpHeaders, isArray \in BOOLEAN, files \in Batches :
       /\ httpReq' = Req("pm", "POST /api/files", auth, None, None, files, <<isArray>>, "file")
       /\ httpRes' = PmRead(isArray, files)
  /\ UNCHANGED << allowedExt, pathVars, authVars, termVars, cmdVars, listVars >>

PmPostUpdate ==
  /\ ~httpRes.done
  /\ \E auth \in HttpHeaders, p \in HttpPaths, content \in Contents,
     kind \in FsKinds :
       /\ httpReq' = Req("pm", "POST /api/files/update", auth, p, content, <<>>, <<>>, kind)
       /\ httpRes' = PmUpdate(p, content, kind)
  /\ UNCHANGED << allowedExt, pathVars, authVars, termVars, cmdVars, listVars >>

PmPostMove ==
  /\ ~httpRes.done
  /\ \E auth \in HttpHeaders, p \in HttpPaths, dest \in SecondPaths,
     kind \in FsKinds :
       /\ httpReq' = Req("pm", "POST /api/files/move", auth, p, dest, <<>>, <<>>, kind)
       /\ httpRes' = PmMove(p, dest, kind)
  /\ UNCHANGED << allowedExt, pathVars, authVars, termVars, cmdVars, listVars >>

PmPostCopy ==
  /\ ~httpRes.done
  /\ \E auth \in HttpHeaders, p \in HttpPaths, dest \in SecondPaths,
     kind \in FsKinds :
       /\ httpReq' = Req("pm", "POST /api/files/copy", auth, p, dest, <<>>, <<>>, kind)
       /\ httpRes' = PmCopy(p, dest, kind)
  /\ UNCHANGED << allowedExt, pathVars, authVars, termVars, cmdVars, listVars >>

PmPostDelete ==
  /\ ~httpRes.done
  /\ \E auth \in HttpHeaders, p \in HttpPaths, kind \in FsKinds :
       /\ httpReq' = Req("pm", "POST /api/files/delete", auth, p, None, <<>>, <<>>, kind)
       /\ httpRes' = PmDelete(p, kind)
  /\ UNCHANGED << allowedExt, pathVars, authVars, termVars, cmdVars, listVars >>

PmPostLs ==
  /\ ~httpRes.done
  /\ \E auth \in HttpHeaders, p \in HttpPaths, recursive \in BOOLEAN,
     with_content \in BOOLEAN, kind \in FsKinds :
       /\ httpReq' = Req("pm", "POST /api/ls", auth, p, None, <<>>, <<recursive, with_content>>, kind)
       /\ httpRes' = PmList(p, recursive, with_content, kind)
  /\ UNCHANGED << allowedExt, pathVars, authVars, termVars, cmdVars, listVars >>

PmPostStats ==
  /\ ~httpRes.done
  /\ \E auth \in HttpHeaders, p \in HttpPaths, kind \in FsKinds :
       /\ httpReq' = Req("pm", "POST /api/files/stats", auth, p, None, <<>>, <<>>, kind)
       /\ httpRes' = PmStats(p, kind)
  /\ UNCHANGED << allowedExt, pathVars, authVars, termVars, cmdVars, listVars >>

PmPostShell ==
  /\ ~httpRes.done
  /\ \E auth \in HttpHeaders, command \in Contents, cwd \in SecondPaths,
     stream \in BOOLEAN :
       /\ httpReq' = Req("pm", "POST /api/shell", auth, command, cwd, <<>>, <<stream>>, "absent")
       /\ httpRes' = PmShell(command, cwd, stream)
  /\ UNCHANGED << allowedExt, pathVars, authVars, termVars, cmdVars, listVars >>

NextRequest ==
  /\ httpRes.done
  /\ httpReq' = Pending
  /\ httpRes' = Pending
  /\ UNCHANGED << allowedExt, pathVars, authVars, termVars, cmdVars, listVars >>

NextHttp ==
  \/ NextRequest
  \/ GetHealth \/ GetFile \/ PostFile \/ PutFile \/ DeleteFile \/ GetLs
  \/ PostMkdir \/ GetStat \/ GetSearch
  \/ PmGetHealth \/ PmPostCreate \/ PmPostRead \/ PmPostUpdate \/ PmPostMove
  \/ PmPostCopy \/ PmPostDelete \/ PmPostLs \/ PmPostStats \/ PmPostShell

SpecHttp == InitHttp /\ [][NextHttp]_vars

\* the WorkingRoot directory itself or an entry inside it
InWorkingRoot(path) == path = WORKDIR \/ InsideDir(path, WORKDIR)

\* C2: after any sequence of file requests and command executions, every path
\* handed to the filesystem, and every working directory a process is
\* spawned in, lies in WorkingRoot.
C2_AllAccessInsideRoot ==
  httpRes.done => \A fx \in httpRes.effects : InWorkingRoot(fx.path)

\* a request for ../../a on the ProjectManager server wrote outside the root
C2_WroteOutside ==
  /\ httpRes.done
  /\ httpReq.server = "pm"
  /\ Fx("writeFile", <<"/", "a">>) \in httpRes.effects

\* C3: every handler other than the liveness probe performs no filesystem
\* access and spawns no process for a request that does not carry
\* "Authorization: Bearer <configured token>". (The claim adds that the answer
\* is 401; the statement checked is the part a wrong status alone cannot
\* violate.)
C3_NoEffectWithoutAuth ==
  (httpRes.done /\ httpReq.endpoint # "GET /health"
     /\ httpReq.auth # BearerToken)
    => httpRes.effects = {}

\* a request without any Authorization header ran a command
C3_UnauthenticatedExec ==
  /\ httpRes.done
  /\ httpReq.auth = None
  /\ \E fx \in httpRes.effects : fx.op = "exec"

(***************************************************************************)
(* Terminal sessions (codespace-agent.js, TERMINAL WS and shutdown)        *)
(*                                                                         *)
(* A frame is a sequence of tokens: the characters of raw text, or "{",    *)
(* the members of an object ("type:ping", "cols:5", ...) and "}".          *)
(***************************************************************************)
\* values of Math.random().toString(36).substring(7)
SessionIds == {"k3x", "p9q"}

\* cols and rows of pty.spawn, and the defaults of a resize
DefaultCols == 80
DefaultRows == 30

\* members a client object is built from; Undefined is a member's absence
Members ==
  {"type:ping", "type:resize", "type:other", "cols:5", "cols:0", "rows:7",
   "rows:0"}
Undefined == -1

MemberKey(tok) ==
  IF tok \in {"type:ping", "type:resize", "type:other"} THEN "type"
  ELSE IF tok \in {"cols:5", "cols:0"} THEN "cols"
  ELSE "rows"

TypeValue(tok) ==
  IF tok = "type:ping" THEN "ping"
  ELSE IF tok = "type:resize" THEN "resize"
  ELSE "other"

NumberValue(tok) ==
  IF tok = "cols:5" THEN 5 ELSE IF tok = "rows:7" THEN 7 ELSE 0

\* position of the last member of text with the given key, 0 if none
LastMember(text, key) ==
  Max({0} \cup { k \in 2..(Len(text) - 1) : MemberKey(text[k]) = key })

\* JSON.parse(text) for a text that starts with "{": an object when the text
\* is "{", members, "}", and a SyntaxError otherwise
JSONParse(text) ==
  IF /\ Len(text) >= 2
     /\ text[1] = "{"
     /\ text[Len(text)] = "}"
     /\ \A k \in 2..(Len(text) - 1) : text[k] \in Members
    THEN LET t == LastMember(text, "type")
             c == LastMember(text, "cols")
             r == LastMember(text, "rows")
         IN [ok |-> TRUE,
             type |-> IF t = 0 THEN "undefined" ELSE TypeValue(text[t]),
             cols |-> IF c = 0 THEN Undefined ELSE NumberValue(text[c]),
             rows |-> IF r = 0 THEN Undefined ELSE NumberValue(text[r])]
    ELSE [ok |-> FALSE, type |-> "undefined", cols |-> Undefined,
          rows |-> Undefined]

\* value || fallback, for a number or undefined
OrElse(value, fallback) ==
  IF value = Undefined \/ value = 0 THEN fallback ELSE value

\* JSON.stringify of the frames the server builds
ConnectedFrame(id) == <<"{", "type:connected", id, "}">>
PongFrame == <<"{", "type:pong", "}">>
ExitFrame(status) == <<"{", "type:exit", status.exitCode, status.signal, "}">>

\* what a shell reports when it exits
ExitStatuses ==
  {[exitCode |-> "exitCode:0", signal |-> "signal:0"],
   [exitCode |-> "exitCode:0", signal |-> "signal:1"]}

\* frames a client sends, and output a shell produces
ClientFrames ==
  {<<"l">>,
   <<"m">>,
   <<"{">>,
   <<"{", "l">>,
   <<"{", "type:ping">>,
   <<"{", "}">>,
   <<"{", "type:other", "}">>,
   <<"{", "type:ping", "}">>,
   <<"{", "type:resize", "}">>,
   <<"{", "type:resize", "cols:5", "rows:7", "}">>,
   <<"{", "type:resize", "cols:0", "rows:0", "}">>}
ShellOutputs == {<<"o">>, <<"p">>}

\* request targets of an upgrade
TerminalUrl == "/ws/terminal"
UpgradeUrls == {TerminalUrl, "/other"}

\* a call a handler made: the session it acted on and with what
Call(op, s, arg) == [op |-> op, s |-> s, arg |-> arg]

\* ---- the Map activeSessions, a sequence of <<sessionId, shell>> ----
MapHas(m, id) == \E k \in 1..Len(m) : m[k][1] = id
MapSet(m, id, shell) ==
  IF MapHas(m, id)
    THEN [k \in 1..Len(m) |-> IF m[k][1] = id THEN <<id, shell>> ELSE m[k]]
    ELSE Append(m, <<id, shell>>)
MapDelete(m, id) == SelectSeq(m, LAMBDA pair : pair[1] # id)
MapShells(m) == { m[k][2] : k \in 1..Len(m) }

\* ---- a session: what wss.on("connection") creates and its closures hold --
NewSession(id) ==
  [id |-> id, shell |-> "running", killed |-> FALSE,
   ws |-> "OPEN", closing |-> "none",
   sent |-> <<ConnectedFrame(id)>>, written |-> <<>>,
   cols |-> DefaultCols, rows |-> DefaultRows,
   exitHandled |-> FALSE, closeHandled |-> FALSE]

\* a ws.send that still delivers while the connection is closing
WsSendWhileClosing(sess, frame) ==
  IF sess.ws # "CLOSED" THEN [sess EXCEPT !.sent = Append(@, frame)] ELSE sess

\* ws.send(frame): delivered on an open connection only
WsSend(sess, frame) ==
  IF sess.ws = "OPEN" THEN [sess EXCEPT !.sent = Append(@, frame)] ELSE sess

\* a shell.onData that does not look at readyState
OnDataUnguarded(i, sess, data) ==
  [sess |-> [sess EXCEPT !.sent = Append(@, data)],
   fx |-> <<Call("ws.send", i, data)>>]

\* a shell.onData that puts the newest output first
OnDataNewestFirst(i, sess, data) ==
  IF sess.ws = "OPEN"
    THEN [sess |-> [sess EXCEPT !.sent = <<data>> \o @],
          fx |-> <<Call("ws.send", i, data)>>]
    ELSE [sess |-> sess, fx |-> <<>>]

\* shell.onData(data)
OnData(i, sess, data) ==
  IF sess.ws = "OPEN"
    THEN [sess |-> WsSend(sess, data), fx |-> <<Call("ws.send", i, data)>>]
    ELSE [sess |-> sess, fx |-> <<>>]

\* a shell.onExit that closes the connection before it sends the notification
OnExitCloseFirst(i, sess, status) ==
  LET gone == [sess EXCEPT !.shell = "exited", !.exitHandled = TRUE] IN
  IF sess.ws = "OPEN"
    THEN [sess |-> [gone EXCEPT !.ws = "CLOSING", !.closing = "server"],
          fx |-> <<Call("ws.close", i, <<>>),
                   Call("ws.send", i, ExitFrame(status))>>]
    ELSE [sess |-> gone, fx |-> <<>>]

\* shell.onExit({exitCode, signal}), up to the Map's delete
OnExit(i, sess, status) ==
  LET gone == [sess EXCEPT !.shell = "exited", !.exitHandled = TRUE] IN
  IF sess.ws = "OPEN"
    THEN [sess |-> [WsSend(gone, ExitFrame(status))
                      EXCEPT !.ws = "CLOSING", !.closing = "server"],
          fx |-> <<Call("ws.send", i, ExitFrame(status)),
                   Call("ws.close", i, <<>>)>>]
    ELSE [sess |-> gone, fx |-> <<>>]

\* a ws.on("message") that writes to the shell what it cannot handle
OnMessageForwardingUnhandled(i, sess, text) ==
  IF StartsWith(text, <<"{">>) /\ JSONParse(text).ok
       /\ JSONParse(text).type \in {"resize", "ping"}
    THEN IF JSONParse(text).type = "ping"
           THEN [sess |-> WsSend(sess, PongFrame),
                 fx |-> IF sess.ws = "OPEN"
                          THEN <<Call("ws.send", i, PongFrame)>> ELSE <<>>]
           ELSE LET c == OrElse(JSONParse(text).cols, DefaultCols)
                    r == OrElse(JSONParse(text).rows, DefaultRows)
                IN [sess |-> IF sess.shell = "running"
                               THEN [sess EXCEPT !.cols = c, !.rows = r]
                               ELSE sess,
                    fx |-> <<Call("shell.resize", i, <<c, r>>)>>]
    ELSE [sess |-> IF sess.shell = "running"
                     THEN [sess EXCEPT !.written = Append(@, text)]
                     ELSE sess,
          fx |-> <<Call("shell.write", i, text)>>]

\* a ws.on("message") that also hands a ping to the shell
OnMessagePingToShell(i, sess, text) ==
  IF StartsWith(text, <<"{">>)
    THEN LET json == JSONParse(text) IN
      IF ~json.ok THEN [sess |-> sess, fx |-> <<>>]
      ELSE IF json.type = "resize"
        THEN LET c == OrElse(json.cols, DefaultCols)
                 r == OrElse(json.rows, DefaultRows)
             IN [sess |-> IF sess.shell = "running"
                            THEN [sess EXCEPT !.cols = c, !.rows = r]
                            ELSE sess,
                 fx |-> <<Call("shell.resize", i, <<c, r>>)>>]
      ELSE IF json.type = "ping"
        THEN [sess |-> [WsSend(sess, PongFrame)
                          EXCEPT !.written = Append(@, text)],
              fx |-> <<Call("ws.send", i, PongFrame),
                       Call("shell.write", i, text)>>]
      ELSE [sess |-> sess, fx |-> <<>>]
    ELSE [sess |-> IF sess.shell = "running"
                     THEN [sess EXCEPT !.written = Append(@, text)]
                     ELSE sess,
          fx |-> <<Call("shell.write", i, text)>>]

\* a ws.on("message") that resizes to the defaults whatever the message says
OnMessageResizeDefaults(i, sess, text) ==
  IF StartsWith(text, <<"{">>)
    THEN LET json == JSONParse(text) IN
      IF ~json.ok THEN [sess |-> sess, fx |-> <<>>]
      ELSE IF json.type = "resize"
        THEN [sess |-> IF sess.shell = "running"
                         THEN [sess EXCEPT !.cols = DefaultCols,
                                           !.rows = DefaultRows]
                         ELSE sess,
              fx |-> <<Call("shell.resize", i, <<DefaultCols, DefaultRows>>)>>]
      ELSE IF json.type = "ping"
        THEN [sess |-> WsSend(sess, PongFrame),
              fx |-> IF sess.ws = "OPEN"
                       THEN <<Call("ws.send", i, PongFrame)>> ELSE <<>>]
      ELSE [sess |-> sess, fx |-> <<>>]
    ELSE [sess |-> IF sess.shell = "running"
                     THEN [sess EXCEPT !.written = Append(@, text)]
                     ELSE sess,
          fx |-> <<Call("shell.write", i, text)>>]

\* ws.on("message", msg)
OnMessage(i, sess, text) ==
  IF StartsWith(text, <<"{">>)
    THEN LET json == JSONParse(text) IN
      IF ~json.ok THEN [sess |-> sess, fx |-> <<>>]
      ELSE IF json.type = "resize"
        THEN LET c == OrElse(json.cols, DefaultCols)
                 r == OrElse(json.rows, DefaultRows)
             IN [sess |-> IF sess.shell = "running"
                            THEN [sess EXCEPT !.cols = c, !.rows = r]
                            ELSE sess,
                 fx |-> <<Call("shell.resize", i, <<c, r>>)>>]
      ELSE IF json.type = "ping"
        THEN [sess |-> WsSend(sess, PongFrame),
              fx |-> IF sess.ws = "OPEN"
                       THEN <<Call("ws.send", i, PongFrame)>> ELSE <<>>]
      ELSE [sess |-> sess, fx |-> <<>>]
    ELSE [sess |-> IF sess.shell = "running"
                     THEN [sess EXCEPT !.written = Append(@, text)]
                     ELSE sess,
          fx |-> <<Call("shell.write", i, text)>>]

\* a ws.on("close") that leaves the shell alone
OnCloseNoKill(i, sess) ==
  [sess |-> [sess EXCEPT !.ws = "CLOSED", !.closeHandled = TRUE],
   fx |-> <<>>]

\* ws.on("close"), up to the Map's delete
OnClose(i, sess) ==
  [sess |-> [sess EXCEPT !.ws = "CLOSED", !.killed = TRUE,
                         !.closeHandled = TRUE],
   fx |-> <<Call("shell.kill", i, <<>>)>>]

TermAlive == exitCode = -1

InLiveSet(i) == \E k \in 1..Len(activeSessions) :
                  activeSessions[k] = <<sessions[i].id, i>>

(***************************************************************************)
(* Spec: the terminal server                                               *)
(***************************************************************************)
\* server.on("upgrade"), with wss.handleUpgrade and wss.on("connection")
Upgrade ==
  /\ TermAlive
  /\ \E auth \in HttpHeaders, url \in UpgradeUrls, id \in SessionIds :
       IF UpgradeRejected(auth)
         THEN /\ lastUpgrade' = [done |-> TRUE, auth |-> auth, url |-> url,
                                 status |-> 401, socket |-> "destroyed",
                                 session |-> 0]
              /\ event' = [handler |-> "upgrade", s |-> 0, arg |-> <<>>]
              /\ effects' = <<Call("socket.write", 0, <<"401">>),
                              Call("socket.destroy", 0, <<>>)>>
              /\ UNCHANGED << sessions, activeSessions, sessionsLeft, cmdVars, listVars >>
       ELSE IF url # TerminalUrl
         THEN /\ lastUpgrade' = [done |-> TRUE, auth |-> auth, url |-> url,
                                 status |-> 404, socket |-> "destroyed",
                                 session |-> 0]
              /\ event' = [handler |-> "upgrade", s |-> 0, arg |-> <<>>]
              /\ effects' = <<Call("socket.write", 0, <<"404">>),
                              Call("socket.destroy", 0, <<>>)>>
              /\ UNCHANGED << sessions, activeSessions, sessionsLeft, cmdVars, listVars >>
       ELSE LET n == Len(sessions) + 1 IN
              /\ sessionsLeft > 0
              /\ sessionsLeft' = sessionsLeft - 1
              /\ lastUpgrade' = [done |-> TRUE, auth |-> auth, url |-> url,
                                 status |-> 101, socket |-> "upgraded",
                                 session |-> n]
              /\ sessions' = Append(sessions, NewSession(id))
              /\ activeSessions' = MapSet(activeSessions, id, n)
              /\ event' = [handler |-> "connection", s |-> n, arg |-> <<id>>]
              /\ effects' = <<Call("pty.spawn", n, <<>>),
                              Call("activeSessions.set", n, <<id>>),
                              Call("ws.send", n, ConnectedFrame(id))>>
  /\ UNCHANGED << shutdown, killedAtTerm, exitCode, ioLeft,
                  pathVars, authVars, httpVars, cmdVars, listVars >>

\* the shell produces output: shell.onData
ShellData ==
  /\ TermAlive
  /\ ioLeft > 0
  /\ \E i \in 1..Len(sessions), data \in ShellOutputs :
       /\ sessions[i].shell = "running"
       /\ LET out == OnData(i, sessions[i], data) IN
            /\ sessions' = [sessions EXCEPT ![i] = out.sess]
            /\ effects' = out.fx
       /\ event' = [handler |-> "data", s |-> i, arg |-> data]
  /\ ioLeft' = ioLeft - 1
  /\ UNCHANGED << activeSessions, lastUpgrade, shutdown, killedAtTerm,
                  exitCode, sessionsLeft, pathVars, authVars, httpVars, cmdVars, listVars >>

\* the shell exits: shell.onExit
ShellExit ==
  /\ TermAlive
  /\ \E i \in 1..Len(sessions), status \in ExitStatuses :
       /\ sessions[i].shell = "running"
       /\ LET out == OnExit(i, sessions[i], status) IN
            /\ sessions' = [sessions EXCEPT ![i] = out.sess]
            /\ effects' = Append(out.fx,
                                 Call("activeSessions.delete", i,
                                      <<sessions[i].id>>))
       /\ activeSessions' = MapDelete(activeSessions, sessions[i].id)
       /\ event' = [handler |-> "exit", s |-> i, arg |-> ExitFrame(status)]
  /\ UNCHANGED << lastUpgrade, shutdown, killedAtTerm, exitCode,
                  sessionsLeft, ioLeft, pathVars, authVars, httpVars, cmdVars, listVars >>

\* a frame arrives from the client: ws.on("message"). Frames arrive on an
\* open connection and, until the peer answers, on one the server is closing
ClientMessage ==
  /\ TermAlive
  /\ ioLeft > 0
  /\ \E i \in 1..Len(sessions), text \in ClientFrames :
       /\ \/ sessions[i].ws = "OPEN"
          \/ sessions[i].ws = "CLOSING" /\ sessions[i].closing = "server"
       /\ LET out == OnMessage(i, sessions[i], text) IN
            /\ sessions' = [sessions EXCEPT ![i] = out.sess]
            /\ effects' = out.fx
       /\ event' = [handler |-> "message", s |-> i, arg |-> text]
  /\ ioLeft' = ioLeft - 1
  /\ UNCHANGED << activeSessions, lastUpgrade, shutdown, killedAtTerm,
                  exitCode, sessionsLeft, pathVars, authVars, httpVars, cmdVars, listVars >>

\* the peer starts the closing handshake: readyState becomes CLOSING, no
\* handler of the program runs yet
PeerClosing ==
  /\ TermAlive
  /\ \E i \in 1..Len(sessions) :
       /\ sessions[i].ws = "OPEN"
       /\ sessions' = [sessions EXCEPT ![i].ws = "CLOSING",
                                       ![i].closing = "peer"]
       /\ event' = [handler |-> "closing", s |-> i, arg |-> <<>>]
  /\ effects' = <<>>
  /\ UNCHANGED << activeSessions, lastUpgrade, shutdown, killedAtTerm,
                  exitCode, sessionsLeft, ioLeft, pathVars, authVars,
                  httpVars, cmdVars, listVars >>

\* the connection is closed (handshake done, or the network failed):
\* ws.on("close")
WsClose ==
  /\ TermAlive
  /\ \E i \in 1..Len(sessions) :
       /\ sessions[i].ws \in {"OPEN", "CLOSING"}
       /\ LET out == OnClose(i, sessions[i]) IN
            /\ sessions' = [sessions EXCEPT ![i] = out.sess]
            /\ effects' = Append(out.fx,
                                 Call("activeSessions.delete", i,
                                      <<sessions[i].id>>))
       /\ activeSessions' = MapDelete(activeSessions, sessions[i].id)
       /\ event' = [handler |-> "close", s |-> i, arg |-> <<>>]
  /\ UNCHANGED << lastUpgrade, shutdown, killedAtTerm, exitCode,
                  sessionsLeft, ioLeft, pathVars, authVars, httpVars, cmdVars, listVars >>

\* the shells process.on('SIGTERM') calls kill() on: those in the Map
ShellsToKill == MapShells(activeSessions)

\* process.on('SIGTERM'): kill the shells of the Map, server.close(callback),
\* setTimeout(..., 10000)
Sigterm ==
  /\ TermAlive
  /\ shutdown < MaxSigterm
  /\ shutdown' = shutdown + 1
  /\ sessions' = [i \in 1..Len(sessions) |->
                    IF i \in ShellsToKill
                      THEN [sessions[i] EXCEPT !.killed = TRUE]
                      ELSE sessions[i]]
  /\ killedAtTerm' = killedAtTerm \cup ShellsToKill
  /\ event' = [handler |-> "SIGTERM", s |-> 0, arg |-> <<>>]
  /\ effects' = [k \in 1..Len(activeSessions) |->
                   Call("shell.kill", activeSessions[k][2], <<>>)]
                \o <<Call("server.close", 0, <<>>),
                     Call("setTimeout", 0, <<>>)>>
  /\ UNCHANGED << activeSessions, lastUpgrade, exitCode, sessionsLeft, ioLeft,
                  pathVars, authVars, httpVars, cmdVars, listVars >>

\* the callback of server.close(): every connection has ended
ServerClosed ==
  /\ TermAlive
  /\ shutdown > 0
  /\ \A i \in 1..Len(sessions) : sessions[i].ws = "CLOSED"
  /\ exitCode' = 0
  /\ event' = [handler |-> "server.close", s |-> 0, arg |-> <<>>]
  /\ effects' = <<Call("process.exit", 0, <<"0">>)>>
  /\ UNCHANGED << sessions, activeSessions, lastUpgrade, shutdown,
                  killedAtTerm, sessionsLeft, ioLeft, pathVars, authVars,
                  httpVars, cmdVars, listVars >>

\* a grace timer that waits for the connections to end
GraceTimerDueWhenDrained ==
  shutdown > 0 /\ \A i \in 1..Len(sessions) : sessions[i].ws = "CLOSED"

\* whether the grace timer may fire: it was set, and the process still runs
GraceTimerDue == shutdown > 0

\* the callback of setTimeout(..., 10000)
GraceTimeout ==
  /\ TermAlive
  /\ GraceTimerDue
  /\ exitCode' = 1
  /\ event' = [handler |-> "timeout", s |-> 0, arg |-> <<>>]
  /\ effects' = <<Call("process.exit", 0, <<"1">>)>>
  /\ UNCHANGED << sessions, activeSessions, lastUpgrade, shutdown,
                  killedAtTerm, sessionsLeft, ioLeft, pathVars, authVars,
                  httpVars, cmdVars, listVars >>

InitTerm(nSessions, nIO) ==
  /\ sessions = <<>>
  /\ activeSessions = <<>>
  /\ lastUpgrade = Pending
  /\ event = NoEvent
  /\ effects = <<>>
  /\ shutdown = 0
  /\ killedAtTerm = {}
  /\ exitCode = -1
  /\ sessionsLeft = nSessions
  /\ ioLeft = nIO
  /\ pathArg = None /\ pathOut = Pending
  /\ IdleAuth /\ IdleHttp
  /\ IdleCmd /\ IdleList

Init == InitTerm(MaxSessions, MaxIO)
InitIO == InitTerm(MaxIoSessions, MaxIoFrames)

Next ==
  \/ Upgrade \/ ShellData \/ ShellExit \/ ClientMessage \/ PeerClosing
  \/ WsClose \/ Sigterm \/ ServerClosed \/ GraceTimeout

Spec == Init /\ [][Next]_vars
SpecIO == InitIO /\ [][Next]_vars
\* the event loop runs a timer that is due
InitLive == InitTerm(MaxIoSessions, MaxIO)
SpecLive == InitLive /\ [][Next]_vars /\ WF_vars(GraceTimeout)

(***************************************************************************)
(* Properties of the terminal server                                       *)
(***************************************************************************)
\* a step is the run of one handler: the handler's name is in event'
Ran(handler) == event'.handler = handler /\ vars' # vars

\* C5: an upgrade request whose credential check fails is answered 401 and
\* its socket is destroyed without an upgrade; it spawns no shell and adds
\* no entry to activeSessions
C5_FailedUpgradeRejected ==
  /\ [](lastUpgrade.done /\ lastUpgrade.auth # BearerToken
          => /\ lastUpgrade.status = 401
             /\ lastUpgrade.socket = "destroyed"
             /\ lastUpgrade.session = 0)
  /\ [][(Ran("upgrade") \/ Ran("connection"))
          /\ lastUpgrade'.auth # BearerToken
          => /\ effects' = <<Call("socket.write", 0, <<"401">>),
                             Call("socket.destroy", 0, <<>>)>>
             /\ sessions' = sessions
             /\ activeSessions' = activeSessions]_vars

\* an upgrade to the terminal's url with the bare token was refused while a
\* session was open
C5_RejectedUpgrade ==
  /\ event.handler = "upgrade"
  /\ lastUpgrade.done
  /\ lastUpgrade.auth = AGENT_TOKEN
  /\ lastUpgrade.url = TerminalUrl
  /\ lastUpgrade.status = 401
  /\ Len(sessions) = 1
  /\ Len(activeSessions) = 1

\* C6: when a session's shell exits, the exit notification is sent if the
\* connection is open, then the connection is closed, then the session is
\* removed from activeSessions; once the exit is handled the session is in
\* activeSessions in no later state
C6_ExitOrderAndRemoval ==
  /\ [](\A i \in 1..Len(sessions) :
          sessions[i].exitHandled
            => ~InLiveSet(i) /\ sessions[i].ws # "OPEN")
  /\ [][Ran("exit")
          => LET i == event'.s
                 frame == event'.arg
                 delete == Call("activeSessions.delete", i,
                                <<sessions[i].id>>)
             IN /\ sessions[i].ws = "OPEN"
                     => /\ effects' = <<Call("ws.send", i, frame),
                                        Call("ws.close", i, <<>>), delete>>
                        /\ sessions'[i].sent = Append(sessions[i].sent, frame)
                        /\ sessions'[i].ws = "CLOSING"
                /\ sessions[i].ws # "OPEN"
                     => /\ effects' = <<delete>>
                        /\ sessions'[i].sent = sessions[i].sent
                /\ ~MapHas(activeSessions', sessions[i].id)]_vars

\* a shell exited on an open connection: the exit frame is the last frame
\* sent, the connection is closing, and the session left activeSessions
C6_ExitNotified ==
  /\ event.handler = "exit"
  /\ sessions[event.s].exitHandled
  /\ sessions[event.s].ws = "CLOSING"
  /\ sessions[event.s].closing = "server"
  /\ sessions[event.s].sent[Len(sessions[event.s].sent)] = event.arg
  /\ Len(effects) = 3
  /\ ~InLiveSet(event.s)

\* C7: when a session's connection closes, its shell is sent a termination
\* request and the session is removed from activeSessions, whatever other
\* sessions exist or have existed
C7_CloseKillsAndRemoves ==
  /\ [](\A i \in 1..Len(sessions) :
          sessions[i].closeHandled
            => sessions[i].killed /\ ~InLiveSet(i))
  /\ [][Ran("close")
          => LET i == event'.s IN
               /\ effects' = <<Call("shell.kill", i, <<>>),
                               Call("activeSessions.delete", i,
                                    <<sessions[i].id>>)>>
               /\ sessions'[i].killed
               /\ sessions'[i].ws = "CLOSED"
               /\ ~MapHas(activeSessions', sessions[i].id)]_vars

\* a connection closed after the peer began the handshake, while another
\* session with the same id existed
C7_ClosedBesideOthers ==
  /\ event.handler = "close"
  /\ sessions[event.s].closeHandled
  /\ sessions[event.s].closing = "peer"
  /\ sessions[event.s].killed
  /\ \E j \in 1..Len(sessions) :
       j # event.s /\ sessions[j].id = sessions[event.s].id

\* a session whose handlers have removed nothing yet and whose shell runs
Running(i) ==
  /\ sessions[i].shell = "running"
  /\ ~sessions[i].closeHandled

\* C8: when shutdown is requested, the shell of every session whose process
\* is still running is sent a termination request by the SIGTERM handler
C8_ShutdownKillsAll ==
  event.handler = "SIGTERM"
    => \A i \in 1..Len(sessions) : Running(i) => i \in killedAtTerm

\* SIGTERM ran while two sessions were open with running shells, and one of
\* the shells was not in the Map and got no termination request
C8_ShellMissed ==
  /\ event.handler = "SIGTERM"
  /\ \E i \in 1..Len(sessions) :
       /\ Running(i)
       /\ sessions[i].ws = "OPEN"
       /\ ~sessions[i].killed
       /\ i \notin killedAtTerm

\* C9: after a shutdown request the process eventually exits
C9_ShutdownExits == (shutdown > 0) ~> (exitCode # -1)

\* the grace timer ended the process while a connection was open and its
\* shell running
C9_ForcedExit ==
  /\ shutdown > 0
  /\ exitCode = 1
  /\ event.handler = "timeout"
  /\ \E i \in 1..Len(sessions) :
       sessions[i].ws = "OPEN" /\ sessions[i].shell = "running"

\* frames that start with "{" and are not JSON, or are an object whose type
\* is neither resize nor ping
UnhandledFrames ==
  {<<"{">>,
   <<"{", "l">>,
   <<"{", "type:ping">>,
   <<"{", "}">>,
   <<"{", "type:other", "}">>}

\* C10: a frame that starts as an object but fails to parse, or parses to
\* an object whose type is neither resize nor ping, is a no-op: nothing is
\* written to the shell, nothing is sent, and the session stays as it was
C10_UnhandledFrameIsNoOp ==
  [][Ran("message") /\ event'.arg \in UnhandledFrames
       => /\ effects' = <<>>
          /\ sessions' = sessions
          /\ activeSessions' = activeSessions]_vars

\* a malformed frame and an object of another type arrived on an open
\* connection with a running shell, and left no trace
C10_UnhandledFrameDropped ==
  /\ event.handler = "message"
  /\ event.arg \in {<<"{", "l">>, <<"{", "type:other", "}">>}
  /\ effects = <<>>
  /\ sessions[event.s].ws = "OPEN"
  /\ sessions[event.s].shell = "running"
  /\ sessions[event.s].written = <<>>
  /\ sessions[event.s].sent = <<ConnectedFrame(sessions[event.s].id)>>

\* the recognized control messages: a well-formed resize or ping object
ControlFrames ==
  {<<"{", "type:ping", "}">>,
   <<"{", "type:resize", "}">>,
   <<"{", "type:resize", "cols:5", "rows:7", "}">>,
   <<"{", "type:resize", "cols:0", "rows:0", "}">>}

\* C11: every client frame that is not a recognized control message is
\* written verbatim to the session's shell, also when it fails to parse as
\* a control message or carries an unknown type
C11_UnrecognizedForwarded ==
  (event.handler = "message" /\ event.arg \notin ControlFrames)
    => effects = <<Call("shell.write", event.s, event.arg)>>

\* the first frame of a session was an object of an unknown type, on an
\* open connection with a running shell, and the shell was written nothing
C11_UnknownTypeNotForwarded ==
  /\ event.handler = "message"
  /\ event.arg = <<"{", "type:other", "}">>
  /\ sessions[event.s].ws = "OPEN"
  /\ sessions[event.s].shell = "running"
  /\ sessions[event.s].written = <<>>
  /\ \A k \in 1..Len(effects) : effects[k].op # "shell.write"

\* the session is Active: connection open, shell running
Active(sess) == sess.ws = "OPEN" /\ sess.shell = "running"

\* C12: a {type:"ping"} frame received on an Active session produces
\* exactly one {type:"pong"} frame on the same connection, writes nothing
\* to the shell and neither resizes nor terminates it
C12_PingAnsweredOnce ==
  [][Ran("message") /\ event'.arg = <<"{", "type:ping", "}">>
       /\ Active(sessions[event'.s])
       => /\ effects' = <<Call("ws.send", event'.s, PongFrame)>>
          /\ sessions' = [sessions EXCEPT
                            ![event'.s].sent = Append(@, PongFrame)]
          /\ activeSessions' = activeSessions]_vars

\* a ping was answered: the pong is the last frame sent, after the welcome
C12_PongSent ==
  /\ event.handler = "message"
  /\ event.arg = <<"{", "type:ping", "}">>
  /\ Active(sessions[event.s])
  /\ sessions[event.s].sent
       = <<ConnectedFrame(sessions[event.s].id), PongFrame>>
  /\ sessions[event.s].written = <<>>
  /\ ~sessions[event.s].killed

\* a session is live: created, and neither its exit nor its close handled
Live(i) ==
  /\ ~sessions[i].exitHandled
  /\ ~sessions[i].closeHandled

\* C13: any two sessions live at the same time have different ids, and
\* activeSessions holds one entry per live session
C13_LiveIdsDistinct ==
  /\ \A i, j \in 1..Len(sessions) :
       i # j /\ Live(i) /\ Live(j) => sessions[i].id # sessions[j].id
  /\ \A i \in 1..Len(sessions) : Live(i) => InLiveSet(i)

\* a second connection drew the id of a live session and took its entry
C13_EntryReplaced ==
  /\ event.handler = "connection"
  /\ Len(sessions) = 2
  /\ Live(1) /\ Live(2)
  /\ Active(sessions[1]) /\ Active(sessions[2])
  /\ sessions[1].id = sessions[2].id
  /\ activeSessions = <<<<sessions[2].id, 2>>>>

\* the handlers that run for one session
SessionHandlers == {"message", "data", "exit", "close"}

\* C14: handling an event of one session leaves every other session
\* unchanged and removes no other session's entry from activeSessions
C14_OtherSessionsUntouched ==
  [][event'.handler \in SessionHandlers /\ vars' # vars
       => \A j \in 1..Len(sessions) :
            j # event'.s
              => /\ sessions'[j] = sessions[j]
                 /\ InLiveSet(j)
                      => \E k \in 1..Len(activeSessions') :
                           activeSessions'[k] = <<sessions[j].id, j>>]_vars

\* the close of one connection removed the entry of another session, which
\* is still Active
C14_EntryOfOtherRemoved ==
  /\ event.handler = "close"
  /\ event.s = 1
  /\ Len(sessions) = 2
  /\ Active(sessions[2]) /\ Live(2)
  /\ sessions[1].id = sessions[2].id
  /\ activeSessions = <<>>

\* the batch endpoints
BatchEndpoints == {"POST /api/files/create", "POST /api/files"}

\* an element that cannot be processed: no path, or null
Unprocessable(item) == item = None \/ item = NullItem \/ item = <<>>

\* C17: a batch create or read whose files value is an array is answered
\* with an aggregate success holding one result per element in the same
\* order; an element that cannot be processed has success = false and no
\* element makes the whole request fail
C17_BatchItemsIsolated ==
  (httpRes.done /\ httpReq.server = "pm"
     /\ httpReq.endpoint \in BatchEndpoints /\ httpReq.flag = <<TRUE>>)
    => /\ httpRes.status = 200
       /\ Len(httpRes.results) = Len(httpReq.files)
       /\ \A i \in 1..Len(httpReq.files) :
            /\ httpRes.results[i].path = httpReq.files[i]
            /\ Unprocessable(httpReq.files[i])
                 => ~httpRes.results[i].success

\* a create batch of a null element and a good one was answered 500,
\* after the good element's file was written
C17_NullElementFailsBatch ==
  /\ httpRes.done
  /\ httpReq.endpoint = "POST /api/files/create"
  /\ httpReq.flag = <<TRUE>>
  /\ httpReq.files = <<NullItem, <<"a">>>>
  /\ httpRes.status = 500
  /\ \E fx \in httpRes.effects : fx.op = "writeFile"

\* an extension that isAllowedExtension finds on the configured list
OnAllowList(path) ==
  LET ext == ToLowerCase(PathExtname(path)) IN
    \/ ext \in allowedExt.list
    \/ SubSeq(ext, 2, Len(ext)) \in allowedExt.list

\* C18: with an allow-list configured, no request that succeeds has written
\* a file whose extension is not on the list, on every endpoint that writes
C18_DisallowedExtensionNotWritten ==
  (httpRes.done /\ ~allowedExt.isNull /\ httpRes.status = 200)
    => \A fx \in httpRes.effects :
         fx.op = "writeFile" => OnAllowList(fx.path)

\* PUT /api/files on the agent, with the credential, wrote an existing file
\* whose extension is not on the configured list
C18_UpdateIgnoresAllowList ==
  /\ httpRes.done
  /\ ~allowedExt.isNull
  /\ httpReq.server = "agent"
  /\ httpReq.endpoint = "PUT /api/files"
  /\ httpReq.auth = BearerToken
  /\ httpRes.status = 200
  /\ \E fx \in httpRes.effects :
       fx.op = "writeFile" /\ ~OnAllowList(fx.path)

\* the update endpoints
UpdateEndpoints == {"PUT /api/files", "POST /api/files/update"}

\* C19: an update for a path that does not exist fails with not-found and
\* never creates the file, on every update endpoint
C19_UpdateOfAbsentFails ==
  (httpRes.done /\ httpReq.endpoint \in UpdateEndpoints
     /\ httpReq.kind = "absent"
     /\ ~Falsy(httpReq.path) /\ httpReq.path2 # None
     /\ (httpReq.server = "agent" => httpReq.auth = BearerToken
                                      /\ safePath(httpReq.path).ok))
    => /\ httpRes.status = 404
       /\ \A fx \in httpRes.effects : fx.op # "writeFile"

\* POST /api/files/update of the ProjectManager server for an absent path
\* was answered 200 and the file written
C19_UpdateCreatedFile ==
  /\ httpRes.done
  /\ httpReq.server = "pm"
  /\ httpReq.endpoint = "POST /api/files/update"
  /\ httpReq.kind = "absent"
  /\ httpReq.path = <<"a">>
  /\ httpRes.status = 200
  /\ Fx("writeFile", PmAbs(PathJoin(basePath, <<"a">>))) \in httpRes.effects

(***************************************************************************)
(* SpecCmd: one POST /api/shell of the ProjectManager server, over time    *)
(*                                                                         *)
(* Texts are sequences of tokens; None is an absent member.                *)
(***************************************************************************)
\* the default timeout of runCommand, in milliseconds
ExecTimeoutMs == 30000

\* what the posted command does, the environment's choice: whether the
\* shell can be spawned, whether the command ends by itself (with which
\* status) or outlasts the timeout, what SIGTERM does to it, whether it
\* leaves a descendant that holds none of its pipes, and what it prints on
\* stderr
Behaviours ==
  [spawn : {"ok", "fails"}, run : {"exit0", "exit1", "long"},
   onTerm : {"dies", "ignores"}, detaches : BOOLEAN,
   err : {<<>>, <<"e">>}]

Commands == {None, <<>>, <<"x">>}
WorkingDirs == {None, <<"a">>}

\* the record a caller gets: { success, command, stdout, stderr, error,
\* exitCode }
Result(success, command, stdout, stderr, error, code) ==
  [success |-> success, command |-> command, stdout |-> stdout,
   stderr |-> stderr, error |-> error, exitCode |-> code]

\* a || b for texts
OrText(a, b) == IF a = None \/ a = <<>> THEN b ELSE a

\* the message of the error exec's callback gets when the child ended with
\* a status other than 0 or by a signal
CommandFailed(command, err) == <<"Command failed: ">> \o command \o err
\* the message of the error event of a child that could not be spawned
SpawnFailed == <<"spawn /bin/sh ENOENT">>

\* the catch block of runCommand: error.code is the status, null after a
\* signal, and the error's name after a failed spawn
RunCommandCaught(command, errStderr, message, code) ==
  Result(FALSE, command, <<>>, OrText(errStderr, message), None,
         IF code = "null" \/ code = "0" THEN "1" ELSE code)

\* the try block of runCommand
RunCommandReturned(command, err) ==
  Result(TRUE, command, <<>>, err, None, "0")

\* the close handler of runCommandStream
StreamClosed(command, err, code) ==
  Result(code = "0", command, <<>>, err, None, code)
\* the value runCommandStream's error handler rejects with
StreamRejection(command, message) ==
  Result(FALSE, command, None, None, message, "1")

\* the body the route's catch block sends for a caught value: its message
\* member only
RouteCaught(caught) ==
  Result(FALSE, None, None, None,
         IF "message" \in DOMAIN caught THEN caught.message ELSE None, None)

Fulfilled(value) == [kind |-> "fulfilled", value |-> value]
Rejected(value) == [kind |-> "rejected", value |-> value]
Unsettled == [kind |-> "pending", value |-> None]
Response(status, body) == [done |-> TRUE, status |-> status, body |-> body]

\* the route's answer to a settled promise of runCommand / runCommandStream
RouteAnswer(settled) ==
  IF settled.kind = "fulfilled" THEN Response(200, settled.value)
  ELSE Response(500, RouteCaught(settled.value))

InitCmd ==
  /\ invocation = NoInvocation
  /\ pathArg = None /\ pathOut = Pending
  /\ IdleAuth /\ IdleHttp /\ IdleList
  /\ sessions = <<>> /\ activeSessions = <<>> /\ lastUpgrade = Pending
  /\ event = NoEvent /\ effects = <<>> /\ shutdown = 0
  /\ killedAtTerm = {} /\ exitCode = -1 /\ sessionsLeft = 0 /\ ioLeft = 0

\* app.post('/api/shell') up to the spawn of the child
PostShell ==
  /\ invocation.phase = "idle"
  /\ \E command \in Commands, cwd \in WorkingDirs, stream \in BOOLEAN,
        b \in Behaviours :
       invocation' =
         [phase |-> IF Falsy(command) THEN "responded" ELSE "running",
          command |-> command, cwd |-> cwd, stream |-> stream,
          behaviour |-> b,
          child |-> IF ~Falsy(command) /\ b.spawn = "ok"
                      THEN "running" ELSE "none",
          descendant |-> "none",
          timer |-> IF ~Falsy(command) /\ ~stream /\ b.spawn = "ok"
                      THEN "armed" ELSE "none",
          killed |-> FALSE,
          settled |-> Unsettled,
          response |-> IF Falsy(command)
                         THEN Response(400, RouteCaught(
                                [message |-> <<"command is required">>]))
                         ELSE Pending]
  /\ UNCHANGED << pathVars, authVars, httpVars, termVars, listVars >>

\* the child's 'error' event after a failed spawn, and what follows from it
SpawnError ==
  /\ invocation.phase = "running"
  /\ invocation.behaviour.spawn = "fails"
  /\ LET settled ==
           IF invocation.stream
             THEN Rejected(StreamRejection(invocation.command, SpawnFailed))
             ELSE Fulfilled(RunCommandCaught(invocation.command, <<>>,
                                             SpawnFailed, "ENOENT"))
     IN invocation' = [invocation EXCEPT !.phase = "responded",
                                         !.settled = settled,
                                         !.response = RouteAnswer(settled)]
  /\ UNCHANGED << pathVars, authVars, httpVars, termVars, listVars >>

\* the timeout of exec: the child is sent SIGTERM
ExecTimeout ==
  /\ invocation.phase = "running"
  /\ invocation.timer = "armed"
  /\ invocation.child = "running"
  /\ invocation.behaviour.run = "long"
  /\ invocation' = [invocation EXCEPT !.timer = "fired", !.killed = TRUE]
  /\ UNCHANGED << pathVars, authVars, httpVars, termVars, listVars >>

\* the child's 'close' event: it ended and its pipes are closed
ChildClose ==
  /\ invocation.phase = "running"
  /\ invocation.child = "running"
  /\ \/ invocation.behaviour.run # "long"
     \/ invocation.killed /\ invocation.behaviour.onTerm = "dies"
  /\ LET b == invocation.behaviour
         code == IF b.run = "exit0" THEN "0"
                 ELSE IF b.run = "exit1" THEN "1" ELSE "null"
         settled ==
           IF invocation.stream
             THEN Fulfilled(StreamClosed(invocation.command, b.err, code))
           ELSE IF code = "0"
             THEN Fulfilled(RunCommandReturned(invocation.command, b.err))
           ELSE Fulfilled(RunCommandCaught(
                            invocation.command, b.err,
                            CommandFailed(invocation.command, b.err), code))
     IN invocation' = [invocation EXCEPT
                         !.phase = "responded",
                         !.child = "exited",
                         !.descendant = IF b.detaches THEN "running"
                                        ELSE "none",
                         !.timer = IF @ = "armed" THEN "cleared" ELSE @,
                         !.settled = settled,
                         !.response = RouteAnswer(settled)]
  /\ UNCHANGED << pathVars, authVars, httpVars, termVars, listVars >>

\* the next request
NextInvocation ==
  /\ invocation.phase = "responded"
  /\ invocation' = NoInvocation
  /\ UNCHANGED << pathVars, authVars, httpVars, termVars, listVars >>

NextCmd ==
  PostShell \/ SpawnError \/ ExecTimeout \/ ChildClose \/ NextInvocation

SpecCmd == InitCmd /\ [][NextCmd]_vars

\* words by which a result can tell a timeout
TimeoutMarks == {"ETIMEDOUT", "timeout", "timed out", "killed", "SIGTERM"}
Mentions(text, marks) ==
  text # None /\ \E k \in 1..Len(text) : text[k] \in marks
IndicatesTimeout(result) ==
  \/ Mentions(result.stderr, TimeoutMarks)
  \/ Mentions(result.error, TimeoutMarks)
  \/ Mentions(result.stdout, TimeoutMarks)
  \/ result.exitCode \in TimeoutMarks

\* a buffered execution whose timeout fired has been answered
TimedOut ==
  /\ invocation.phase = "responded"
  /\ ~invocation.stream
  /\ invocation.timer = "fired"

\* C15: a buffered execution that outlasts the timeout returns success =
\* false with an indication of the timeout, and when the result is returned
\* no process the invocation started is running
C15_TimeoutReportedAndKilled ==
  TimedOut
    => /\ ~invocation.response.body.success
       /\ IndicatesTimeout(invocation.response.body)
       /\ invocation.child = "exited"
       /\ invocation.descendant # "running"

\* a command that outlasted the timeout and printed nothing was answered
\* with the result of a command that ended with status 1
C15_TimeoutLooksLikeFailure ==
  /\ TimedOut
  /\ invocation.behaviour.err = <<>>
  /\ ~invocation.behaviour.detaches
  /\ invocation.response.status = 200
  /\ invocation.response.body
       = RunCommandCaught(invocation.command, <<>>,
                          CommandFailed(invocation.command, <<>>), "1")

\* C16: when the command's process cannot be spawned, the buffered and the
\* streaming execution both complete with a result having success = false
\* and a descriptive error, never with a rejected promise, and the caller
\* of the endpoint receives that result
C16_SpawnFailureIsResult ==
  (invocation.phase = "responded" /\ ~Falsy(invocation.command)
     /\ invocation.behaviour.spawn = "fails")
    => /\ invocation.settled.kind = "fulfilled"
       /\ ~invocation.settled.value.success
       /\ \/ OrText(invocation.settled.value.stderr, <<>>) # <<>>
          \/ OrText(invocation.settled.value.error, <<>>) # <<>>
       /\ invocation.response.body = invocation.settled.value

\* a streaming execution whose shell could not be spawned rejected, and
\* the caller was answered 500 with a body that has no error text
C16_StreamSpawnFailureRejected ==
  /\ invocation.phase = "responded"
  /\ invocation.stream
  /\ invocation.behaviour.spawn = "fails"
  /\ invocation.settled.kind = "rejected"
  /\ invocation.response.status = 500
  /\ invocation.response.body.error = None

(***************************************************************************)
(* SpecList: directory listings of the two servers                         *)
(*                                                                         *)
(* A path is the sequence of its segments; path.join of a directory and a  *)
(* name appends the name, relativePath.split(path.sep) is the sequence.    *)
(***************************************************************************)
\* the hardcoded exclusions
Infrastructure == {".devcontainer", ".codespace-agent"}

\* what the listed tree holds: the entries of the listed root, and the
\* entries of each of its directories
TopNames == {".devcontainer", "a", "b"}
SubNames == {".codespace-agent", "b"}
DirNames == {".devcontainer", ".codespace-agent", "a"}
Trees == [top : SUBSET TopNames, sub : SUBSET SubNames]

\* directories a request names: the root, one of its directories, a
\* missing one, and the parent of the root
ListDirs == {<<>>, <<"a">>, <<".devcontainer">>, <<"..">>}

\* fs.readdir of a directory of the tree; ok is FALSE when it rejects
Readdir(tree, dir) ==
  IF dir = <<>> \/ dir = <<"..">> THEN [ok |-> TRUE, names |-> tree.top]
  ELSE IF Len(dir) = 1 /\ dir[1] \in tree.top /\ dir[1] \in DirNames
    THEN [ok |-> TRUE, names |-> tree.sub]
  ELSE IF Len(dir) = 2 /\ dir[1] \in tree.top /\ dir[1] \in DirNames
          /\ dir[2] \in tree.sub /\ dir[2] \in DirNames
    THEN [ok |-> TRUE, names |-> {}]
  ELSE [ok |-> FALSE, names |-> {}]

\* a rule of the ignore filter: a name, or its negation
Rule(name, negative) == [name |-> name, negative |-> negative]
\* contents of .gitignore, and the file: one that cannot be read, or one
\* with such a content
GitignoreContents ==
  {<<>>, <<Rule("b", FALSE)>>, <<Rule(".devcontainer", TRUE)>>}
GitignoreFiles ==
  {[readable |-> FALSE, content |-> <<>>]}
    \cup { [readable |-> TRUE, content |-> c] : c \in GitignoreContents }

\* loadGitignore(): ignore().add(content) or, in the catch block, ignore(),
\* each followed by the two hardcoded rules
LoadedFilter(file) ==
  [isNull |-> FALSE,
   rules |-> (IF file.readable THEN file.content ELSE <<>>)
             \o <<Rule(".devcontainer", FALSE),
                  Rule(".codespace-agent", FALSE)>>]

\* ignore: the last rule that matches the path's last segment decides
TestOne(rules, name) ==
  LET hits == { k \in 1..Len(rules) : rules[k].name = name } IN
    hits # {} /\ ~rules[Max(hits)].negative

\* ignore's ignores(path): a path under an ignored directory is ignored
FilterIgnores(rules, path) ==
  \E k \in 1..Len(path) :
    /\ TestOne(rules, path[k])
    /\ \A j \in 1..(k - 1) : ~TestOne(rules, path[j])

\* ignore throws a RangeError for a path that is not relative to its root
FilterThrows(path) == path # <<>> /\ path[1] = ".."

\* shouldIgnore(relativePath); throws is TRUE when ignores() throws
shouldIgnore(filter, relativePath) ==
  IF filter.isNull THEN [throws |-> FALSE, ignored |-> FALSE]
  ELSE IF \E k \in 1..Len(relativePath) : relativePath[k] \in Infrastructure
    THEN [throws |-> FALSE, ignored |-> TRUE]
  ELSE IF FilterThrows(relativePath)
    THEN [throws |-> TRUE, ignored |-> FALSE]
  ELSE [throws |-> FALSE, ignored |-> FilterIgnores(filter.rules, relativePath)]

\* the item paths one call of listDirectory keeps
KeptItems(filter, tree, dirPath) ==
  { dirPath \o <<n>> : n \in { m \in Readdir(tree, dirPath).names :
                                ~shouldIgnore(filter, dirPath \o <<m>>).ignored } }

\* whether one call of listDirectory throws
ListThrows(filter, tree, dirPath) ==
  \/ ~Readdir(tree, dirPath).ok
  \/ \E n \in Readdir(tree, dirPath).names :
       shouldIgnore(filter, dirPath \o <<n>>).throws

Listed(server, dirPath, recursive, status, items) ==
  [done |-> TRUE, server |-> server, dirPath |-> dirPath,
   recursive |-> recursive, status |-> status, items |-> items]

\* app.post('/api/ls') and listDirectory(dirPath, recursive): the paths of
\* all items of the answer, children included
PmListing(filter, tree, dirPath, recursive) ==
  LET first == KeptItems(filter, tree, dirPath)
      dirs  == { p \in first : p[Len(p)] \in DirNames }
  IN IF ListThrows(filter, tree, dirPath)
       THEN Listed("pm", dirPath, recursive, 500, {})
     ELSE IF ~recursive
       THEN Listed("pm", dirPath, recursive, 200, first)
     ELSE IF \E p \in dirs : ListThrows(filter, tree, p)
       THEN Listed("pm", dirPath, recursive, 500, {})
     ELSE Listed("pm", dirPath, recursive, 200,
                 first \cup UNION { KeptItems(filter, tree, p) : p \in dirs })

\* app.get("/api/ls"): every entry of the directory
AgentListing(auth, tree, dirPath) ==
  IF ~assertAuth(auth).ok THEN Listed("agent", dirPath, FALSE, 401, {})
  ELSE IF dirPath = <<"..">> THEN Listed("agent", dirPath, FALSE, 400, {})
  ELSE IF ~Readdir(tree, dirPath).ok
    THEN Listed("agent", dirPath, FALSE, 404, {})
  ELSE Listed("agent", dirPath, FALSE, 200,
              { dirPath \o <<n>> : n \in Readdir(tree, dirPath).names })

InitList ==
  /\ ignoreFilter = NullFilter
  /\ listing = Pending
  /\ pathArg = None /\ pathOut = Pending
  /\ IdleAuth /\ IdleHttp /\ IdleCmd
  /\ sessions = <<>> /\ activeSessions = <<>> /\ lastUpgrade = Pending
  /\ event = NoEvent /\ effects = <<>> /\ shutdown = 0
  /\ killedAtTerm = {} /\ exitCode = -1 /\ sessionsLeft = 0 /\ ioLeft = 0

\* the read of .gitignore the constructor started has settled
LoadGitignore ==
  /\ ignoreFilter.isNull
  /\ \E file \in GitignoreFiles : ignoreFilter' = LoadedFilter(file)
  /\ UNCHANGED << listing, pathVars, authVars, httpVars, termVars, cmdVars >>

PmPostListing ==
  /\ ~listing.done
  /\ \E tree \in Trees, dirPath \in ListDirs, recursive \in BOOLEAN :
       listing' = PmListing(ignoreFilter, tree, dirPath, recursive)
  /\ UNCHANGED << ignoreFilter, pathVars, authVars, httpVars, termVars,
                  cmdVars >>

AgentGetListing ==
  /\ ~listing.done
  /\ \E auth \in {None, BearerToken}, tree \in Trees, dirPath \in ListDirs :
       listing' = AgentListing(auth, tree, dirPath)
  /\ UNCHANGED << ignoreFilter, pathVars, authVars, httpVars, termVars,
                  cmdVars >>

NextListing ==
  /\ listing.done
  /\ listing' = Pending
  /\ UNCHANGED << ignoreFilter, pathVars, authVars, httpVars, termVars,
                  cmdVars >>

NextList == LoadGitignore \/ PmPostListing \/ AgentGetListing \/ NextListing

SpecList == InitList /\ [][NextList]_vars

\* the path is, or lies under, an infrastructure directory
UnderInfrastructure(path) ==
  \E k \in 1..Len(path) : path[k] \in Infrastructure

\* C20: every listing response, also before the ignore file is loaded and
\* whatever the ignore file holds, omits every entry that is or lies under
\* a .devcontainer or .codespace-agent directory
C20_InfrastructureOmitted ==
  (listing.done /\ listing.status = 200)
    => \A p \in listing.items : ~UnderInfrastructure(p)

\* the agent's listing of the root, after the ignore file was loaded,
\* holds .devcontainer
C20_AgentListsInfrastructure ==
  /\ listing.done
  /\ listing.server = "agent"
  /\ listing.status = 200
  /\ listing.dirPath = <<>>
  /\ ~ignoreFilter.isNull
  /\ <<".devcontainer">> \in listing.items

\* the delete endpoints, and a directory that holds an entry
DeleteEndpoints == {"DELETE /api/files", "POST /api/files/delete"}
NonEmptyDirectory(kind) == kind \in {"dirsub", "dirfile"}

\* C21: a delete of a non-empty directory without the recursive flag fails;
\* with the flag it succeeds; on every delete endpoint
C21_DeleteNeedsRecursiveFlag ==
  (httpRes.done /\ httpReq.endpoint \in DeleteEndpoints
     /\ NonEmptyDirectory(httpReq.kind)
     /\ ~Falsy(httpReq.path)
     /\ (httpReq.server = "agent" => httpReq.auth = BearerToken
                                      /\ safePath(httpReq.path).ok))
    => IF httpReq.flag = <<TRUE>>
         THEN httpRes.status = 200
         ELSE httpRes.status # 200

\* POST /api/files/delete of the ProjectManager server, which takes no
\* recursive flag, removed a directory that holds a file
C21_DeletedWithoutFlag ==
  /\ httpRes.done
  /\ httpReq.server = "pm"
  /\ httpReq.endpoint = "POST /api/files/delete"
  /\ httpReq.kind = "dirfile"
  /\ httpReq.flag = <<>>
  /\ httpReq.path = <<"a">>
  /\ httpRes.status = 200
  /\ Fx("rm", PmAbs(PathJoin(basePath, <<"a">>))) \in httpRes.effects

\* C22: shell output is sent to the session's connection, unmodified,
\* only while the connection is open; output produced while it is closing
\* or closed is dropped with no send and no change of the session
C22_OutputOnlyWhileOpen ==
  [][Ran("data")
       => LET i == event'.s
              data == event'.arg
          IN /\ activeSessions' = activeSessions
             /\ IF sessions[i].ws = "OPEN"
                  THEN /\ effects' = <<Call("ws.send", i, data)>>
                       /\ sessions' = [sessions EXCEPT
                                         ![i].sent = Append(@, data)]
                  ELSE /\ effects' = <<>>
                       /\ sessions' = sessions]_vars

\* a shell that is still running produced output after its connection had
\* closed, and nothing was sent
C22_OutputDropped ==
  /\ event.handler = "data"
  /\ sessions[event.s].ws = "CLOSED"
  /\ sessions[event.s].shell = "running"
  /\ effects = <<>>
  /\ sessions[event.s].sent = <<ConnectedFrame(sessions[event.s].id)>>

\* the resize messages that carry cols and rows, and what they carry
ResizeFrame(cols, rows) == <<"{", "type:resize", cols, rows, "}">>

C24_HandledInArrivalOrder ==
  [][LET i == event'.s IN
       /\ Ran("message") /\ ~StartsWith(event'.arg, <<"{">>)
            /\ sessions[i].shell = "running"
            => sessions'[i].written = Append(sessions[i].written, event'.arg)
       /\ Ran("message") /\ event'.arg = <<"{", "type:ping", "}">>
            /\ sessions[i].ws = "OPEN"
            => sessions'[i].sent = Append(sessions[i].sent, PongFrame)
       /\ Ran("data") /\ sessions[i].ws = "OPEN"
            => sessions'[i].sent = Append(sessions[i].sent, event'.arg)
       /\ (Ran("message") \/ Ran("data"))
            => \A j \in 1..Len(sessions) :
                 /\ \E k \in 0..1 :
                      /\ Len(sessions'[j].written)
                           = Len(sessions[j].written) + k
                      /\ SubSeq(sessions'[j].written, 1,
                                Len(sessions[j].written))
                           = sessions[j].written
                 /\ \E k \in 0..1 :
                      /\ Len(sessions'[j].sent) = Len(sessions[j].sent) + k
                      /\ SubSeq(sessions'[j].sent, 1, Len(sessions[j].sent))
                           = sessions[j].sent]_vars

\* input l, a ping and output p arrived in this order, and the shell and
\* the connection got them in this order
C24_OrderKept ==
  /\ event.handler = "data"
  /\ event.arg = <<"p">>
  /\ sessions[event.s].written = << <<"l">> >>
  /\ sessions[event.s].sent
       = <<ConnectedFrame(sessions[event.s].id), PongFrame, <<"p">>>>

\* a frame is an exit notification
IsExitFrame(frame) == Len(frame) >= 2 /\ frame[2] = "type:exit"

\* C25: a connection is sent at most one exit notification, and nothing
\* after it
C25_ExitNotificationLast ==
  \A i \in 1..Len(sessions) :
    \A k \in 1..Len(sessions[i].sent) :
      IsExitFrame(sessions[i].sent[k]) => k = Len(sessions[i].sent)

\* a ping arrived on a connection after the exit notification had been
\* sent on it, and the notification is still the last frame
C25_PingAfterExitUnanswered ==
  /\ event.handler = "message"
  /\ event.arg = <<"{", "type:ping", "}">>
  /\ sessions[event.s].exitHandled
  /\ sessions[event.s].ws = "CLOSING"
  /\ IsExitFrame(sessions[event.s].sent[Len(sessions[event.s].sent)])

\* C26: once shutdown has been requested no terminal session is created:
\* no shell is spawned and no entry is added to activeSessions
C26_NoSessionAfterShutdown ==
  [][shutdown > 0
       => /\ Len(sessions') = Len(sessions)
          /\ \A k \in 1..Len(activeSessions') :
               \E j \in 1..Len(activeSessions) :
                 activeSessions[j] = activeSessions'[k]]_vars

\* an upgrade that arrived after SIGTERM created a session: its shell runs,
\* it is in activeSessions, and the SIGTERM handler never saw it
C26_SessionAfterShutdown ==
  /\ shutdown > 0
  /\ event.handler = "connection"
  /\ event.s = Len(sessions)
  /\ Active(sessions[event.s])
  /\ InLiveSet(event.s)
  /\ ~sessions[event.s].killed
  /\ event.s \notin killedAtTerm

====
